---- MODULE Spec2Model ----
(***************************************************************************)
(* Model of airflow_tableau_provider: TableauApiHook (tableau_hook.py) and *)
(* TableauApiOperator (tableau_operator.py).                               *)
(*                                                                         *)
(* One behaviour is one call of TableauApiOperator.execute.  The operator  *)
(* arguments and the Airflow connection record are fixed in Init; the      *)
(* answers of the Tableau server (sign-in, directory query, refresh        *)
(* trigger, job status, sign-out) are chosen when the call is made.        *)
(* execute is cut at its remote calls, so that the order of the calls and  *)
(* the position of the context manager's __exit__ are visible.             *)
(*                                                                         *)
(* Python exceptions keep their class names.  Strings that the code only   *)
(* compares for equality or uses as dictionary keys are TLA+ strings; the  *)
(* method name, which the code tests with the `in` operator against a      *)
(* string, is a sequence of characters.                                    *)
(***************************************************************************)
EXTENDS Integers, Sequences, FiniteSets, TLC

\* ------------------------------------------------------------------ bounds
\* Largest number of entries the directory query returns.
MaxMatches == 2
\* Largest number of job-status polls of one wait; the server answers the
\* last one with a terminal status.
MaxPolls == 18

\* --------------------------------------------------------------- constants
\* Python's None for the optional site_id argument.
None == "<None>"

\* "refresh" as characters.
refresh == <<"r", "e", "f", "r", "e", "s", "h">>

\* available_resources with a third kind that has no refresh support.
available_resources_WithViews ==
    [r \in {"datasources", "workbooks", "views"} |-> refresh]

\* tableau_operator.py:20-23
available_resources == [r \in {"datasources", "workbooks"} |-> refresh]

\* tableau_hook.py:28
default_conn_name == "tableau_default"

\* tableauserverclient's ExponentialBackoffTimer, in milliseconds: the first
\* sleep, the growth per sleep (13/10) and the longest sleep.
InitialSleepMs == 500
MaxSleepMs == 30000
GrowthNum == 13
GrowthDen == 10

\* ------------------------------------------------------------ input domains
Resources == {"datasources", "workbooks", "views"}

Methods == { refresh,
             <<>>,
             <<"r", "e">>,
             <<"f", "r", "e", "s", "h">>,
             <<"d", "e", "l", "e", "t", "e">>,
             <<"r", "e", "f", "r", "e", "s", "h", "x">> }

SiteArgs == {None, "", "siteA"}

ExtraKeys == {"site_id", "token_name", "personal_access_token"}

ExtraValues(k) == IF k = "site_id" THEN {"", "siteB"}
                  ELSE IF k = "token_name" THEN {"tn"}
                  ELSE {"secret"}

\* The extra_dejson dictionaries of a connection: any subset of the keys.
Extras == UNION { { e \in [D -> {"", "siteB", "tn", "secret"}] :
                      \A k \in D : e[k] \in ExtraValues(k) } :
                  D \in SUBSET ExtraKeys }

\* A stored connection, or None when the connection id is unknown.
Connections == {[exists |-> FALSE, host |-> "", extra |-> <<>>]}
               \cup { [exists |-> TRUE, host |-> "https://tableau", extra |-> e] :
                      e \in Extras }

ResourceIds == {"r1", "r2", "r3"}

JobIds == {"job-9", "job-123"}

\* The answers of a directory query: up to MaxMatches entries, distinct ids.
RECURSIVE SeqsUpTo(_, _)
SeqsUpTo(S, n) == IF n = 0 THEN {<<>>}
                  ELSE LET shorter == SeqsUpTo(S, n - 1)
                       IN shorter \cup { Append(s, x) : s \in { t \in shorter : Len(t) = n - 1 },
                                                       x \in S }

QueryAnswers == { s \in SeqsUpTo(ResourceIds, MaxMatches) :
                    \A i, j \in 1..Len(s) : i # j => s[i] # s[j] }

\* What jobs.get_by_id can report for one poll: the job is not completed, it
\* completed with a finish code, or the request itself failed (an error
\* response of the server, or no response at all).
PollAnswers == {"PENDING", "SUCCEEDED", "FAILED", "CANCELLED",
                "ServerResponseError", "ConnectionError"}

\* --------------------------------------------------------------- variables
VARIABLES
    resource,          \* self.resource
    method,            \* self.method
    blocking_refresh,  \* self.blocking_refresh
    site_id,           \* self.site_id of the operator (None when omitted)
    tableau_conn_id,   \* self.tableau_conn_id
    conn,              \* the record the connection store holds for that id
    pc,                \* position in execute
    hook_site_id,      \* TableauApiHook.site_id
    tableau_auth,      \* the PersonalAccessTokenAuth that get_conn signs in with
    calls,             \* the requests sent to the Tableau server, in order
    queryLog,          \* the answers of the directory query, in order
    resource_id,       \* resource_id in execute
    triggered,         \* the ids the refresh action was invoked on, in order
    job_id,            \* job_id in execute
    pollLog,           \* the answers of jobs.get_by_id, in order
    sleeps,            \* the intervals slept between polls, in order (ms)
    current_sleep_interval, \* ExponentialBackoffTimer.current_sleep_interval
    pending,           \* how the body of the with statement ended
    outcome,           \* how execute ended
    error_message,     \* the message of the AirflowException of the validation
    logs               \* the records written with logging.info / logging.error

inputs == <<resource, method, blocking_refresh, site_id, tableau_conn_id, conn>>

vars == <<resource, method, blocking_refresh, site_id, tableau_conn_id, conn,
          pc, hook_site_id, tableau_auth, calls, queryLog, resource_id, triggered, job_id,
          pollLog, sleeps, current_sleep_interval, pending, outcome,
          error_message, logs>>

\* ----------------------------------------------------------------- helpers
NoResult == [kind |-> "none", val |-> "", at |-> ""]
Raise(e, step) == [kind |-> "raised", val |-> e, at |-> step]
Return(v) == [kind |-> "returned", val |-> v, at |-> ""]

Min(a, b) == IF a <= b THEN a ELSE b

\* PersonalAccessTokenAuth(token_name, personal_access_token, site_id), and
\* the value of tableau_auth before get_conn has built one.
PersonalAccessTokenAuth(name, token, site) ==
    [token_name |-> name, personal_access_token |-> token, site_id |-> site]
NoAuth == PersonalAccessTokenAuth(None, None, None)

\* Python's `a in b` for two strings: a is a contiguous part of b.
IsSubstring(a, b) ==
    \E i \in 0..(Len(b) - Len(a)) : SubSeq(b, i + 1, i + Len(a)) = a

\* getattr(resource, self.method) on a workbooks/datasources endpoint: of the
\* names that pass the validation only "refresh" is an attribute.
HasMethod(m) == m = refresh

\* dict.get(key, default)
DictGet(d, k, default) == IF k \in DOMAIN d THEN d[k] ELSE default

\* `a if a is not None else b`: only None gives way to b.
Or_NoneOnly(a, b) == IF a = None THEN b ELSE a

\* Python's `a or b` for an optional string a: None and "" are falsy.
Or(a, b) == IF a = None \/ a = "" THEN b ELSE a

\* How often request c was sent.
Count(c) == Cardinality({ i \in 1..Len(calls) : calls[i] = c })

\* --------------------------------------------------------------------- Init
Init ==
    /\ resource \in Resources
    /\ method \in Methods
    /\ blocking_refresh \in BOOLEAN
    /\ site_id \in SiteArgs
    /\ tableau_conn_id = default_conn_name
    /\ conn \in Connections
    /\ pc = "start"
    /\ hook_site_id = None
    /\ tableau_auth = NoAuth
    /\ calls = <<>>
    /\ queryLog = <<>>
    /\ resource_id = None
    /\ triggered = <<>>
    /\ job_id = None
    /\ pollLog = <<>>
    /\ sleeps = <<>>
    /\ current_sleep_interval = InitialSleepMs
    /\ pending = NoResult
    /\ outcome = NoResult
    /\ error_message = <<>>
    /\ logs = <<>>

\* ------------------------------------------------------------------ actions
\* execute, the check of resource and method before the with statement.
Validate ==
    /\ pc = "start"
    /\ IF resource \notin DOMAIN available_resources
       THEN /\ error_message' = <<"Resource not found! Available Resources: ",
                                  available_resources>>
            /\ outcome' = Raise("AirflowException", "validate")
            /\ pc' = "done"
       ELSE IF ~IsSubstring(method, available_resources[resource])
       THEN /\ error_message' = <<"Method not found! Available methods for ",
                                  resource, available_resources[resource]>>
            /\ outcome' = Raise("AirflowException", "validate")
            /\ pc' = "done"
       ELSE /\ pc' = "hook_init"
            /\ UNCHANGED <<outcome, error_message>>
    /\ UNCHANGED <<inputs, tableau_auth, hook_site_id, calls, queryLog, resource_id, triggered,
                   job_id, pollLog, sleeps, current_sleep_interval, pending, logs>>

\* TableauApiHook.__init__: the connection lookup, the site id, and
\* Server(host, use_server_version=True), which asks the server for its
\* version while it is constructed.
HookInit ==
    /\ pc = "hook_init"
    /\ IF ~conn.exists
       THEN /\ outcome' = Raise("AirflowNotFoundException", "hook_init")
            /\ pc' = "done"
            /\ UNCHANGED <<hook_site_id, calls>>
       ELSE /\ hook_site_id' = Or(site_id, DictGet(conn.extra, "site_id", ""))
            /\ calls' = Append(calls, "server_info")
            /\ pc' = "enter"
            /\ UNCHANGED outcome
    /\ UNCHANGED <<inputs, tableau_auth, queryLog, resource_id, triggered, job_id, pollLog,
                   sleeps, current_sleep_interval, pending, error_message, logs>>

\* An __enter__ that returns the hook without calling get_conn.
HookEnter_NoSignIn ==
    /\ pc = "enter"
    /\ pc' = "lookup"
    /\ UNCHANGED <<inputs, tableau_auth, hook_site_id, calls, queryLog, resource_id,
                   triggered, job_id, pollLog, sleeps, current_sleep_interval,
                   pending, outcome, error_message, logs>>

\* TableauApiHook.__enter__ and get_conn: read the two token fields, then
\* sign in.  An exception here leaves the with statement without __exit__.
HookEnter ==
    /\ pc = "enter"
    /\ IF "token_name" \notin DOMAIN conn.extra
          \/ "personal_access_token" \notin DOMAIN conn.extra
       THEN /\ outcome' = Raise("KeyError", "get_conn")
            /\ pc' = "done"
            /\ UNCHANGED <<calls, tableau_auth>>
       ELSE /\ tableau_auth' = PersonalAccessTokenAuth(
                                  conn.extra["token_name"],
                                  conn.extra["personal_access_token"],
                                  hook_site_id)
            /\ calls' = Append(calls, "sign_in")
            /\ \E ok \in BOOLEAN :
                 IF ok
                 THEN pc' = "lookup" /\ UNCHANGED outcome
                 ELSE /\ outcome' = Raise("FailedSignInError", "sign_in")
                      /\ pc' = "done"
    /\ UNCHANGED <<inputs, hook_site_id, queryLog, resource_id, triggered, job_id,
                   pollLog, sleeps, current_sleep_interval, pending,
                   error_message, logs>>

\* The pick of the last entry, `get_resource[-1].id`.
LastEntry(entries) == entries[Len(entries)]

\* get_resource_id, `get_resource[0].id`: the id of the first entry.
FirstEntry(entries) == entries[1]

\* What the directory held, or that the query itself failed.
Answered(entries) == [ok |-> TRUE, entries |-> entries]
QueryFailed == [ok |-> FALSE, entries |-> <<>>]

\* get_resource_id: the directory query and the pick of entry [0].
GetResourceId ==
    /\ pc = "lookup"
    /\ calls' = Append(calls, "filter")
    /\ \/ \E answer \in QueryAnswers :
            /\ queryLog' = Append(queryLog, Answered(answer))
            /\ IF Len(answer) = 0
               THEN /\ pending' = Raise("IndexError", "lookup")
                    /\ pc' = "exit"
                    /\ UNCHANGED <<resource_id, logs>>
               ELSE /\ resource_id' = FirstEntry(answer)
                    /\ logs' = Append(logs, <<"info", "Here is the resource id">>)
                    /\ pc' = "trigger"
                    /\ UNCHANGED pending
       \/ /\ queryLog' = Append(queryLog, QueryFailed)
          /\ pending' = Raise("ServerResponseError", "lookup")
          /\ pc' = "exit"
          /\ UNCHANGED <<resource_id, logs>>
    /\ UNCHANGED <<inputs, tableau_auth, hook_site_id, triggered, job_id, pollLog, sleeps,
                   current_sleep_interval, outcome, error_message>>

\* A trigger that is sent a second time when the server rejects the first.
Trigger_RetryOnce ==
    /\ pc = "trigger"
    /\ IF ~HasMethod(method)
       THEN /\ pending' = Raise("AttributeError", "trigger")
            /\ pc' = "exit"
            /\ UNCHANGED <<calls, triggered, job_id, logs>>
       ELSE /\ calls' = Append(calls, "refresh")
            /\ triggered' = Append(triggered, resource_id)
            /\ \/ \E j \in JobIds :
                    /\ job_id' = j
                    /\ logs' = Append(logs, <<"info", "The refresh has been triggered.">>)
                    /\ IF method = refresh /\ blocking_refresh
                       THEN pc' = "wait" /\ UNCHANGED pending
                       ELSE pc' = "exit" /\ pending' = Return(j)
               \/ /\ logs' = Append(logs, <<"error", "Refresh failed!">>)
                  /\ IF triggered = <<>>
                     THEN pc' = "trigger" /\ UNCHANGED pending
                     ELSE /\ pending' = Raise("ServerResponseError", "trigger")
                          /\ pc' = "exit"
                  /\ UNCHANGED job_id
    /\ UNCHANGED <<inputs, tableau_auth, hook_site_id, queryLog, resource_id,
                   pollLog, sleeps, current_sleep_interval, outcome, error_message>>

\* execute, the try block that looks the method up and calls it, and the
\* decision whether to wait for the job.
Trigger ==
    /\ pc = "trigger"
    /\ IF ~HasMethod(method)
       THEN /\ pending' = Raise("AttributeError", "trigger")
            /\ pc' = "exit"
            /\ UNCHANGED <<calls, triggered, job_id, logs>>
       ELSE /\ calls' = Append(calls, "refresh")
            /\ triggered' = Append(triggered, resource_id)
            /\ \/ \E j \in JobIds :
                    /\ job_id' = j
                    /\ logs' = Append(logs, <<"info", "The refresh has been triggered.">>)
                    /\ IF method = refresh /\ blocking_refresh
                       THEN pc' = "wait" /\ UNCHANGED pending
                       ELSE pc' = "exit" /\ pending' = Return(j)
               \/ /\ logs' = Append(logs, <<"error", "Refresh failed!">>)
                  /\ pending' = Raise("ServerResponseError", "trigger")
                  /\ pc' = "exit"
                  /\ UNCHANGED job_id
    /\ UNCHANGED <<inputs, tableau_auth, hook_site_id, queryLog, resource_id, pollLog, sleeps,
                   current_sleep_interval, outcome, error_message>>

\* ExponentialBackoffTimer.sleep: the interval slept, and the next one.
SleepTime(cur) == Min(cur, MaxSleepMs)
NextInterval(cur) == (cur * GrowthNum) \div GrowthDen

\* The terminal answers of a poll and what wait_for_job does with each.
PollResult(answer, j) ==
    IF answer = "SUCCEEDED" THEN Return(j)
    ELSE IF answer = "FAILED" THEN Raise("JobFailedException", "poll")
    ELSE IF answer = "CANCELLED" THEN Raise("JobCancelledException", "poll")
    ELSE IF answer = "ConnectionError" THEN Raise("ConnectionError", "poll")
    ELSE Raise("ServerResponseError", "poll")

\* The record wait_for_job writes for a terminal answer.
PollLogRecord(answer) ==
    IF answer = "SUCCEEDED" THEN <<<<"info", "Job finished succesfully">>>>
    ELSE IF answer = "ServerResponseError" THEN <<<<"error", "Job failed!">>>>
    ELSE <<>>

\* A wait that takes only SUCCEEDED for the end of the job and polls on after
\* any other terminal answer.
PollJob_KeepsPolling ==
    /\ pc = "wait"
    /\ calls' = Append(calls, "get_by_id")
    /\ \E answer \in PollAnswers :
         /\ answer # "SUCCEEDED" => Len(pollLog) + 1 < MaxPolls
         /\ pollLog' = Append(pollLog, answer)
         /\ IF answer # "SUCCEEDED"
            THEN /\ sleeps' = Append(sleeps, SleepTime(current_sleep_interval))
                 /\ current_sleep_interval' = NextInterval(current_sleep_interval)
                 /\ logs' = IF pollLog = <<>>
                            THEN Append(logs, <<"info", "Waiting for job...">>)
                            ELSE logs
                 /\ UNCHANGED <<pc, pending>>
            ELSE /\ pending' = PollResult(answer, job_id)
                 /\ logs' = (IF pollLog = <<>>
                             THEN Append(logs, <<"info", "Waiting for job...">>)
                             ELSE logs) \o PollLogRecord(answer)
                 /\ pc' = "exit"
                 /\ UNCHANGED <<sleeps, current_sleep_interval>>
    /\ UNCHANGED <<inputs, tableau_auth, hook_site_id, queryLog, resource_id,
                   triggered, job_id, outcome, error_message>>

\* wait_for_job: one jobs.get_by_id of the library's wait loop; a job that is
\* not completed is followed by a sleep and another poll.
PollJob ==
    /\ pc = "wait"
    /\ calls' = Append(calls, "get_by_id")
    /\ \E answer \in PollAnswers :
         /\ answer = "PENDING" => Len(pollLog) + 1 < MaxPolls
         /\ pollLog' = Append(pollLog, answer)
         /\ IF answer = "PENDING"
            THEN /\ sleeps' = Append(sleeps, SleepTime(current_sleep_interval))
                 /\ current_sleep_interval' = NextInterval(current_sleep_interval)
                 /\ logs' = IF pollLog = <<>>
                            THEN Append(logs, <<"info", "Waiting for job...">>)
                            ELSE logs
                 /\ UNCHANGED <<pc, pending>>
            ELSE /\ pending' = PollResult(answer, job_id)
                 /\ logs' = (IF pollLog = <<>>
                             THEN Append(logs, <<"info", "Waiting for job...">>)
                             ELSE logs) \o PollLogRecord(answer)
                 /\ pc' = "exit"
                 /\ UNCHANGED <<sleeps, current_sleep_interval>>
    /\ UNCHANGED <<inputs, tableau_auth, hook_site_id, queryLog, resource_id, triggered, job_id,
                   outcome, error_message>>

\* An __exit__ that signs out only when the body ended without exception.
HookExit_SkipOnError ==
    /\ pc = "exit"
    /\ IF pending.kind = "raised"
       THEN calls' = calls /\ outcome' = pending
       ELSE /\ calls' = Append(calls, "sign_out")
            /\ \E ok \in BOOLEAN :
                 outcome' = IF ok THEN pending
                            ELSE Raise("ServerResponseError", "sign_out")
    /\ pc' = "done"
    /\ UNCHANGED <<inputs, tableau_auth, hook_site_id, queryLog, resource_id, triggered, job_id,
                   pollLog, sleeps, current_sleep_interval, pending,
                   error_message, logs>>

\* TableauApiHook.__exit__ and the end of execute: sign out, then return the
\* job id or let the exception of the body out.  __exit__ has no handler of
\* its own: an exception of sign_out leaves execute in place of either.
HookExit ==
    /\ pc = "exit"
    /\ calls' = Append(calls, "sign_out")
    /\ \E ok \in BOOLEAN :
         outcome' = IF ok THEN pending ELSE Raise("ServerResponseError", "sign_out")
    /\ pc' = "done"
    /\ UNCHANGED <<inputs, tableau_auth, hook_site_id, queryLog, resource_id, triggered, job_id,
                   pollLog, sleeps, current_sleep_interval, pending,
                   error_message, logs>>

Next ==
    \/ Validate
    \/ HookInit
    \/ HookEnter
    \/ GetResourceId
    \/ Trigger
    \/ PollJob
    \/ HookExit

Spec == Init /\ [][Next]_vars

\* execute is one sequential call that runs to its end: whenever it has a
\* next step, that step is taken.  The server answers every request, and
\* answers PENDING fewer than MaxPolls times in a row.
LiveSpec == Spec /\ WF_vars(Next)

\* ------------------------------------------------------- derived notions
\* execute has ended.
Done == pc = "done"

\* Sign-in was sent and answered with a session.
SessionOpened ==
    /\ Count("sign_in") = 1
    /\ ~(Done /\ outcome = Raise("FailedSignInError", "sign_in"))

\* The kinds the plugin supports, as the operator names them.
SupportedKinds == {"datasources", "workbooks"}

\* ------------------------------------------------------------------ claims
\* C1: a session that was opened (sign-in succeeded) is closed (sign-out
\* invoked) exactly once by the time execute ends, whether it returns or
\* raises during lookup, trigger or polling; sign-out is never invoked twice,
\* never while the body of the with statement still runs, and never without
\* an open session.
C1_SessionClosedExactlyOnce ==
    /\ Count("sign_out") <= 1
    /\ (Done /\ SessionOpened) => Count("sign_out") = 1
    /\ (SessionOpened /\ pc \in {"lookup", "trigger", "wait", "exit"})
          => Count("sign_out") = 0
    /\ ~SessionOpened => Count("sign_out") = 0

\* C1 witness: execute ended by an exception raised while polling, with the
\* one sign-out sent after the last poll.
C1_Witness ==
    /\ Done
    /\ SessionOpened
    /\ pending.kind = "raised" /\ pending.at = "poll"
    /\ Count("sign_out") = 1
    /\ calls[Len(calls)] = "sign_out"

\* C2: for a resource outside the supported set execute raises the
\* AirflowException of the validation before the hook is built: no connection
\* lookup, no sign-in, no request at all; the message carries the supported
\* set.
C2_UnsupportedResourceRejected ==
    resource \notin SupportedKinds =>
        /\ calls = <<>>
        /\ pc \in {"start", "done"}
        /\ hook_site_id = None
        /\ Done => /\ outcome = Raise("AirflowException", "validate")
                   /\ Len(error_message) = 2
                   /\ error_message[1] = "Resource not found! Available Resources: "
                   /\ DOMAIN error_message[2] = SupportedKinds

\* C2 witness: execute was called with the kind "views" and has raised.
C2_Witness ==
    /\ resource = "views"
    /\ Done
    /\ outcome.kind = "raised"
    /\ calls = <<>>

\* The method asked for is not the one action the plugin supports.
UnsupportedMethod == resource \in SupportedKinds /\ method # refresh

\* C3: for a supported resource and a method other than "refresh", execute
\* raises the AirflowException of the validation before the hook is built and
\* before any remote action.  The code tests `self.method not in "refresh"`,
\* a substring test, so "", "re" and "fresh" pass the validation.
C3_UnsupportedMethodRejected ==
    UnsupportedMethod =>
        /\ calls = <<>>
        /\ pc \in {"start", "done"}
        /\ triggered = <<>>
        /\ Done => outcome = Raise("AirflowException", "validate")

\* What the code does keep of C3: a method that is no part of "refresh" is
\* rejected by the validation, and no method other than "refresh" ever
\* reaches the server as a remote action.
C3_Residual ==
    /\ (UnsupportedMethod /\ ~IsSubstring(method, refresh))
          => (calls = <<>> /\ pc \in {"start", "done"})
    /\ UnsupportedMethod => (triggered = <<>> /\ Count("refresh") = 0)
    /\ (UnsupportedMethod /\ Done /\ outcome.at = "validate")
          => error_message = <<"Method not found! Available methods for ",
                               resource, refresh>>

\* The stored connection lacks one of the two token fields.
MissingToken ==
    /\ conn.exists
    /\ \/ "token_name" \notin DOMAIN conn.extra
       \/ "personal_access_token" \notin DOMAIN conn.extra

\* The hook is being built or entered, or was.
HookBuilt == pc \notin {"start", "hook_init"} /\ outcome.at \notin {"validate", "hook_init"}

\* C4: for a connection without token_name or personal_access_token, opening
\* the session raises (KeyError, the code's configuration error) and no
\* request has gone to the server before that, the construction of the hook
\* included.  Server(host, use_server_version=True) in __init__ queries the
\* server's version before get_conn reads the token fields.
C4_MissingTokenNoNetwork ==
    (MissingToken /\ HookBuilt) =>
        /\ calls = <<>>
        /\ pc \in {"enter", "done"}
        /\ Done => outcome = Raise("KeyError", "get_conn")

\* What the code does keep of C4: the KeyError, no sign-in and no sign-out;
\* the version query of the constructor is the only request.
C4_Residual ==
    (MissingToken /\ HookBuilt) =>
        /\ calls = <<"server_info">>
        /\ pc \in {"enter", "done"}
        /\ Done => outcome = Raise("KeyError", "get_conn")

\* The directory query was answered with no entry.
ZeroMatches == queryLog = <<Answered(<<>>)>>

\* C5: when the directory query returns no entry, execute raises the error of
\* the lookup (IndexError, the code's resource-not-found error), triggers no
\* refresh, polls nothing and signs out.
C5_ZeroMatchesFails ==
    (Done /\ ZeroMatches) =>
        /\ outcome = Raise("IndexError", "lookup")
        /\ triggered = <<>> /\ Count("refresh") = 0
        /\ pollLog = <<>> /\ Count("get_by_id") = 0
        /\ Count("sign_out") = 1

\* What the code does keep of C5: the lookup raises IndexError, nothing is
\* triggered or polled, sign-out is sent; the IndexError leaves execute unless
\* sign_out raises.
C5_Residual ==
    ZeroMatches =>
        /\ pending = Raise("IndexError", "lookup")
        /\ triggered = <<>> /\ Count("refresh") = 0
        /\ pollLog = <<>> /\ Count("get_by_id") = 0
        /\ pc \in {"exit", "done"}
        /\ Done => /\ Count("sign_out") = 1
                   /\ outcome \in {pending, Raise("ServerResponseError", "sign_out")}

\* The directory query was answered with two or more entries.
MultipleMatches ==
    /\ Len(queryLog) = 1
    /\ queryLog[1].ok
    /\ Len(queryLog[1].entries) >= 2

\* C6: when the directory query returns two or more entries, the lookup does
\* not raise: execute goes on with the id of the first entry, the refresh
\* action is invoked on that id and on no other, and at most once.
C6_FirstMatchWins ==
    MultipleMatches =>
        LET first == queryLog[1].entries[1]
        IN /\ pending.at # "lookup" /\ outcome.at # "lookup"
           /\ pc \in {"trigger", "wait", "exit", "done"}
           /\ resource_id = first
           /\ \A i \in 1..Len(triggered) : triggered[i] = first
           /\ Len(triggered) <= 1
           /\ (method = refresh /\ pc \in {"wait", "exit", "done"})
                 => triggered = <<first>>

\* C6 witness: two entries were returned, the refresh went to the first and
\* execute returned its job id.
C6_Witness ==
    /\ MultipleMatches
    /\ Done
    /\ outcome = Return(job_id)
    /\ triggered = <<queryLog[1].entries[1]>>
    /\ queryLog[1].entries[2] # queryLog[1].entries[1]

\* The trigger was accepted: a job id came back.
TriggerSucceeded == job_id # None

\* C7: with blocking_refresh false and an accepted trigger, execute returns
\* the job id of that trigger and never polls the job.
C7_NonBlockingReturnsJobId ==
    (Done /\ ~blocking_refresh /\ TriggerSucceeded) =>
        /\ outcome = Return(job_id)
        /\ pollLog = <<>> /\ Count("get_by_id") = 0

\* What the code does keep of C7: no poll is ever sent without
\* blocking_refresh, and the job id is what the with body hands to __exit__.
C7_Residual ==
    ~blocking_refresh =>
        /\ pollLog = <<>> /\ Count("get_by_id") = 0 /\ pc # "wait"
        /\ (Done /\ TriggerSucceeded)
              => /\ pending = Return(job_id)
                 /\ outcome \in {pending, Raise("ServerResponseError", "sign_out")}

\* The polls so far were answered PENDING, ..., PENDING, SUCCEEDED.
SucceededAfterPending ==
    /\ Len(pollLog) >= 1
    /\ pollLog[Len(pollLog)] = "SUCCEEDED"
    /\ \A i \in 1..(Len(pollLog) - 1) : pollLog[i] = "PENDING"

NonDecreasing(seq) == \A i \in 1..(Len(seq) - 1) : seq[i] <= seq[i + 1]

\* C8: with blocking_refresh true, an accepted trigger and n-1 PENDING answers
\* followed by SUCCEEDED, execute polls exactly n times, sleeps n-1 times with
\* non-decreasing intervals, and returns the job id of the trigger; it never
\* returns from a blocking wait before SUCCEEDED was observed.
C8_BlockingPollsUntilSucceeded ==
    /\ (Done /\ blocking_refresh /\ TriggerSucceeded /\ SucceededAfterPending) =>
          /\ Count("get_by_id") = Len(pollLog)
          /\ Len(sleeps) = Len(pollLog) - 1
          /\ NonDecreasing(sleeps)
          /\ outcome = Return(job_id)
    /\ (blocking_refresh /\ outcome.kind = "returned") => SucceededAfterPending

\* What the code does keep of C8: the number of polls and sleeps, the
\* non-decreasing and capped intervals, no return before SUCCEEDED; the job id
\* is what the with body hands to __exit__.
C8_Residual ==
    /\ Count("get_by_id") = Len(pollLog)
    /\ NonDecreasing(sleeps)
    /\ \A i \in 1..Len(sleeps) : sleeps[i] <= MaxSleepMs
    /\ (blocking_refresh /\ TriggerSucceeded /\ SucceededAfterPending) =>
          /\ Len(sleeps) = Len(pollLog) - 1
          /\ pending = Return(job_id)
          /\ Done => outcome \in {pending, Raise("ServerResponseError", "sign_out")}
    /\ (blocking_refresh /\ (outcome.kind = "returned" \/ pending.kind = "returned"))
          => SucceededAfterPending

\* A poll was answered FAILED.
FailedObserved == \E i \in 1..Len(pollLog) : pollLog[i] = "FAILED"

\* C9: when a poll is answered FAILED, execute raises the job-failed error
\* (JobFailedException) instead of returning a job id, sends no poll after
\* that answer and does not trigger the refresh again.
C9_FailedJobRaises ==
    (Done /\ FailedObserved) =>
        /\ outcome = Raise("JobFailedException", "poll")
        /\ pollLog[Len(pollLog)] = "FAILED"
        /\ Count("get_by_id") = Len(pollLog)
        /\ Count("refresh") = 1 /\ Len(triggered) = 1

\* What the code does keep of C9: FAILED is the last answer polled, the wait
\* ends with JobFailedException, nothing is triggered again and no job id is
\* returned.
C9_Residual ==
    FailedObserved =>
        /\ pollLog[Len(pollLog)] = "FAILED"
        /\ Count("get_by_id") = Len(pollLog)
        /\ Count("refresh") = 1 /\ Len(triggered) = 1
        /\ pc \in {"exit", "done"}
        /\ pending = Raise("JobFailedException", "poll")
        /\ Done => outcome \in {pending, Raise("ServerResponseError", "sign_out")}

\* The server rejected the refresh trigger.
TriggerRejected == pending = Raise("ServerResponseError", "trigger")

\* C10: when the server rejects the trigger, execute raises the error of the
\* trigger (ServerResponseError), starts no polling also with
\* blocking_refresh, returns no job id, and signs out.
C10_RejectedTriggerFails ==
    (Done /\ TriggerRejected) =>
        /\ outcome = Raise("ServerResponseError", "trigger")
        /\ pollLog = <<>> /\ Count("get_by_id") = 0
        /\ job_id = None
        /\ Count("sign_out") = 1

\* What the code does keep of C10: no poll, no job id, one sign-out, and an
\* exception in every case.
C10_Residual ==
    TriggerRejected =>
        /\ pollLog = <<>> /\ Count("get_by_id") = 0
        /\ job_id = None
        /\ pc \in {"exit", "done"}
        /\ Done => /\ Count("sign_out") = 1
                   /\ outcome \in {pending, Raise("ServerResponseError", "sign_out")}

\* A step of execute has raised: the validation, the construction or the
\* entering of the hook, or the body of the with statement.
StepFailed ==
    \/ pending.kind = "raised"
    \/ outcome.kind = "raised" /\ outcome.at # "sign_out"

\* The error that step raised.
StepError == IF pending.kind = "raised" THEN pending ELSE outcome

\* A record of level error was written.
ErrorLogged == \E i \in 1..Len(logs) : logs[i][1] = "error"

\* C11: every error raised at a step of execute is logged where it is
\* detected and reaches the caller, and execute never returns a job id after
\* a step has failed.  Only the two `except ServerResponseError` handlers
\* log; JobFailedException, which the handler of wait_for_job is written for,
\* is no ServerResponseError and passes it unlogged.
C11_NoErrorSwallowed ==
    StepFailed =>
        /\ ErrorLogged
        /\ outcome.kind # "returned"
        /\ Done => outcome = StepError

\* What the code does keep of C11: after a failed step execute never returns,
\* it ends with an exception in every case, and a ServerResponseError of the
\* trigger or of a poll is logged before it is raised again.
C11_Residual ==
    StepFailed =>
        /\ outcome.kind # "returned"
        /\ Done => outcome \in {StepError, Raise("ServerResponseError", "sign_out")}
        /\ (StepError.val = "ServerResponseError" /\ StepError.at \in {"trigger", "poll"})
              => logs[Len(logs)] \in {<<"error", "Refresh failed!">>,
                                      <<"error", "Job failed!">>}

\* C12: closing the session always succeeds: whatever sign-out answers,
\* execute ends the way the body of the with statement ended, returning its
\* job id or raising the error of the failed step.  __exit__ calls sign_out
\* without a handler, so an exception of sign_out leaves execute instead.
C12_SignOutNeverChangesOutcome ==
    (Done /\ Count("sign_out") = 1) => outcome = pending

\* What the code does keep of C12: when sign_out succeeds, or is never
\* reached, the outcome is that of the body.
C12_Residual ==
    (Done /\ Count("sign_out") = 1 /\ outcome.at # "sign_out") => outcome = pending

\* The answers of a poll that are failures of the request, not job states.
TransientAnswers == {"ServerResponseError", "ConnectionError"}

\* The polls that were answered with a failure of the request.
TransientFailures == { i \in 1..Len(pollLog) : pollLog[i] \in TransientAnswers }

\* C13: failed polls are retried a bounded number of times (in the code: not
\* at all, the first failed poll ends the wait), after which execute fails
\* with the error of the poll; failed polls never keep execute polling.
C13_BoundedPollRetries ==
    /\ Cardinality(TransientFailures) <= 1
    /\ TransientFailures # {} => /\ Len(pollLog) \in TransientFailures
                                 /\ Count("get_by_id") = Len(pollLog)
                                 /\ pc \in {"exit", "done"}
    /\ (Done /\ TransientFailures # {})
          => outcome = Raise(pollLog[Len(pollLog)], "poll")

\* What the code does keep of C13: the first failed poll is the last poll,
\* the wait ends with its error, and execute ends with an exception.
C13_Residual ==
    /\ Cardinality(TransientFailures) <= 1
    /\ TransientFailures # {} =>
          /\ Len(pollLog) \in TransientFailures
          /\ Count("get_by_id") = Len(pollLog)
          /\ pc \in {"exit", "done"}
          /\ pending = Raise(pollLog[Len(pollLog)], "poll")
          /\ Done => outcome \in {pending, Raise("ServerResponseError", "sign_out")}

\* C14: execute retries nothing: in one execution sign-in is sent at most
\* once, the directory is queried at most once and the refresh is triggered
\* at most once, whichever step fails.
C14_NoRetries ==
    /\ Count("sign_in") <= 1
    /\ Count("filter") <= 1 /\ Len(queryLog) <= 1
    /\ Count("refresh") <= 1 /\ Len(triggered) <= 1

\* C14 witness: the server rejected the trigger and execute has ended after
\* one sign-in, one directory query and one trigger.
C14_Witness ==
    /\ Done
    /\ TriggerRejected
    /\ Count("sign_in") = 1
    /\ Count("filter") = 1
    /\ Count("refresh") = 1

\* The polls before the last one were all answered PENDING.
PollingEndsAtFirstNonPending ==
    \A i \in 1..(Len(pollLog) - 1) : pollLog[i] = "PENDING"

\* execute has ended, by return or by exception, with the one sign-out sent.
TerminatedAndClosed ==
    /\ Done
    /\ outcome.kind \in {"returned", "raised"}
    /\ Count("sign_out") = 1
    /\ calls[Len(calls)] = "sign_out"

\* C15: with blocking_refresh and an accepted trigger, when the job reaches a
\* terminal status, execute ends (returns or raises) with the session's
\* sign-out sent, and the polling stops at the first terminal status observed:
\* no poll follows an answer other than PENDING, and the wait is left only
\* after such an answer.
C15_BlockingWaitTerminates ==
    /\ [](PollingEndsAtFirstNonPending)
    /\ []((blocking_refresh /\ TriggerSucceeded /\ pc \in {"exit", "done"})
             => (pollLog # <<>> /\ pollLog[Len(pollLog)] # "PENDING"
                 /\ Count("get_by_id") = Len(pollLog)))
    /\ ((pc = "wait") ~> TerminatedAndClosed)

\* C15 witness: a blocking wait saw PENDING twice and then FAILED, and execute
\* has ended with the sign-out sent.
C15_Witness ==
    /\ TerminatedAndClosed
    /\ blocking_refresh /\ TriggerSucceeded
    /\ pollLog = <<"PENDING", "PENDING", "FAILED">>

\* The requests that act on the site: directory query, trigger, poll.
RemoteOperations == {"filter", "refresh", "get_by_id"}

\* The place of a request in one execution.
CallRank == [c \in {"server_info", "sign_in", "filter", "refresh", "get_by_id", "sign_out"}
             |-> CASE c = "server_info" -> 0
                   [] c = "sign_in" -> 1
                   [] c = "filter" -> 2
                   [] c = "refresh" -> 3
                   [] c = "get_by_id" -> 4
                   [] c = "sign_out" -> 5]

\* Sign-in was sent and the server refused it.
SignInFailed == Done /\ outcome = Raise("FailedSignInError", "sign_in")

\* C16: directory query, trigger and polls are sent only inside the session,
\* after the sign-in and before the sign-out, in the order lookup, trigger,
\* polls, each only after the one before it was sent; when sign-in fails
\* none of lookup, trigger, poll and sign-out is sent.
C16_RemoteOpsInsideSession ==
    /\ \A i \in 1..Len(calls) :
          calls[i] \in RemoteOperations =>
              /\ \E j \in 1..(i - 1) : calls[j] = "sign_in"
              /\ \A j \in 1..(i - 1) : calls[j] # "sign_out"
              /\ SessionOpened
    /\ \A i, j \in 1..Len(calls) :
          i < j => CallRank[calls[i]] <= CallRank[calls[j]]
    /\ Count("refresh") >= 1 => Count("filter") = 1
    /\ Count("get_by_id") >= 1 => Count("refresh") = 1
    /\ Count("sign_out") >= 1 => Count("sign_in") = 1
    /\ SignInFailed => calls = <<"server_info", "sign_in">>

\* C16 witness: a whole execution with two polls, every request in its place.
C16_Witness ==
    /\ Done
    /\ calls = <<"server_info", "sign_in", "filter", "refresh",
                 "get_by_id", "get_by_id", "sign_out">>

\* C16, second witness of its last case: sign-in was refused and execute has
\* ended with nothing sent after it.
C16_SignInFailedReached == SignInFailed /\ calls = <<"server_info", "sign_in">>

\* The site the claim assigns to the session: the caller's when it is given
\* and not empty, else the connection's, else the empty site.
ExpectedSite ==
    IF site_id \notin {None, ""} THEN site_id
    ELSE IF "site_id" \in DOMAIN conn.extra THEN conn.extra["site_id"]
    ELSE ""

\* C17: the site id of the hook, and of the credentials the session is opened
\* with, is the caller's site id when a non-empty one is given, otherwise the
\* site_id of the connection record, otherwise the empty site; an omitted or
\* empty caller site id never overrides the site_id of the connection.
C17_SiteIdResolution ==
    /\ HookBuilt => hook_site_id = ExpectedSite
    /\ tableau_auth # NoAuth => tableau_auth.site_id = ExpectedSite
    /\ SessionOpened => tableau_auth # NoAuth
    /\ (SessionOpened /\ site_id \in {None, ""} /\ "site_id" \in DOMAIN conn.extra)
          => tableau_auth.site_id = conn.extra["site_id"]

\* C17 witness: the caller passed an empty site id, the connection names
\* siteB, and the session was opened on siteB.
C17_Witness ==
    /\ SessionOpened
    /\ site_id = ""
    /\ "site_id" \in DOMAIN conn.extra
    /\ conn.extra["site_id"] = "siteB"
    /\ tableau_auth.site_id = "siteB"

\* ------------------------------------------------------------------- types
TypeOK ==
    /\ pc \in {"start", "hook_init", "enter", "lookup", "trigger", "wait", "exit", "done"}
    /\ outcome.kind \in {"none", "returned", "raised"}
    /\ pending.kind \in {"none", "returned", "raised"}
    /\ Len(pollLog) <= MaxPolls
    /\ Len(queryLog) <= 1
    /\ \A i \in 1..Len(queryLog) : Len(queryLog[i].entries) <= MaxMatches

====
